---- MODULE Spec2Model ----
(***************************************************************************)
(* learnFlask: the two tutorial scripts app.py and introduction.py.        *)
(*                                                                         *)
(* A script is executed statement by statement (module import): it may     *)
(* create the application object, registers its routes with app.route and  *)
(* ends in app.run.  Once serving, client threads dispatch GET requests    *)
(* concurrently: the URL map is searched for the first rule that matches   *)
(* the path, the view function bound to the rule's endpoint runs, and the  *)
(* response is sent.                                                       *)
(*                                                                         *)
(* A request path "/s1/s2/.../sn" is the sequence <<s1, ..., sn>> of its   *)
(* segments, so "/" is <<"">>, "/home/" is <<"home", "">> and "//home" is  *)
(* <<"", "home">>.  A response body is the sequence of the text pieces it  *)
(* is made of.                                                             *)
(***************************************************************************)
EXTENDS Integers, Sequences, FiniteSets, TLC

\* Longest request path, in segments.
MaxSegs == 3

\* The first segments of the request paths ("" is the empty segment) ...
Heads == {"", "home", "about", "user", "static", "greet", "does-not-exist"}

\* ... and their later segments.
Tails == {"", "John"}

\* The threads of the development server that serve requests.
Clients == {"t1", "t2"}

Paths ==
    {p \in UNION {[1..n -> Heads \cup Tails] : n \in 1..MaxSegs} :
        /\ p[1] \in Heads
        /\ \A i \in 2..Len(p) : p[i] \in Tails}

VARIABLES
    program,         \* the script being run: "app" or "introduction"
    pc,              \* index of the next statement of the script
    phase,           \* "starting", "serving" or "crashed"
    appDefined,      \* the module global `app` is bound
    url_map,         \* app.url_map: the ordered rules
    view_functions,  \* app.view_functions: the endpoints that have a view
    templateOk,      \* templates/index.html exists and renders
    staticFiles,     \* the files under static/
    req,             \* per client thread: the request it is serving
    hadFailure       \* some request has ended in a 404 or a 500

vars == <<program, pc, phase, appDefined, url_map, view_functions,
          templateOk, staticFiles, req, hadFailure>>

shared == <<phase, appDefined, url_map, view_functions, templateOk, staticFiles>>

(***************************************************************************)
(* URL rules                                                               *)
(***************************************************************************)
Lit(text) == [kind |-> "lit", text |-> text, name |-> ""]

\* <name>: the default (string) converter; <path:name>: the path converter.
Var(conv, name) == [kind |-> conv, text |-> "", name |-> name]

Rule(parts, endpoint) == [rule |-> parts, endpoint |-> endpoint]

\* Flask(__name__) has a static folder, so its constructor adds this rule.
StaticRule == Rule(<<Lit("static"), Var("path", "filename")>>, "static")

\* Variant of PartMatches: a literal part is not compared with the segment.
PartMatchesAnyLiteral(part, seg) ==
    IF part.kind = "lit" THEN TRUE ELSE seg # ""

\* Variant of PartMatches: a placeholder takes an empty segment too.
PartMatchesEmpty(part, seg) ==
    IF part.kind = "lit" THEN seg = part.text ELSE TRUE

\* One part of a rule against one segment of the path.
PartMatches(part, seg) ==
    IF part.kind = "lit" THEN seg = part.text ELSE seg # ""

\* Variant of RuleMatches: a rule also matches the paths it is a prefix of.
RuleMatchesPrefix(r, path) ==
    LET n == Len(r.rule) IN
    /\ Len(path) >= n
    /\ \A i \in 1..n : PartMatches(r.rule[i], path[i])

\* A rule matches a path: literal parts match exactly, a string placeholder
\* takes one non-empty segment, a path placeholder (last part) takes the
\* rest of the path, which must not start with an empty segment.
RuleMatches(r, path) ==
    LET n == Len(r.rule) IN
    /\ IF r.rule[n].kind = "path" THEN Len(path) >= n ELSE Len(path) = n
    /\ \A i \in 1..n : PartMatches(r.rule[i], path[i])

\* The value the rule's placeholder (if any) is bound to.
ViewArgs(r, path) ==
    LET n == Len(r.rule) IN
    IF r.rule[n].kind = "string" THEN (r.rule[n].name :> path[n])
    ELSE IF r.rule[n].kind = "path"
         THEN (r.rule[n].name :> SubSeq(path, n, Len(path)))
         ELSE <<>>

\* Variant of FirstMatch: the last matching rule wins.
LastMatch(map, path) ==
    LET S == {i \in 1..Len(map) : RuleMatches(map[i], path)} IN
    IF S = {} THEN 0 ELSE CHOOSE i \in S : \A j \in S : i >= j

\* Index of the first rule of the map that matches the path, 0 if none does.
FirstMatch(map, path) ==
    LET S == {i \in 1..Len(map) : RuleMatches(map[i], path)} IN
    IF S = {} THEN 0 ELSE CHOOSE i \in S : \A j \in S : i <= j

\* The path as the pieces of its text: a "/" before every segment.
RECURSIVE PathText(_)
PathText(path) ==
    IF path = <<>> THEN <<>>
    ELSE <<"/">> \o (IF Head(path) = "" THEN <<>> ELSE <<Head(path)>>)
                 \o PathText(Tail(path))

\* re.sub("/{2,}?", "/", path): left to right, every two adjacent slashes
\* become one.
RECURSIVE MergeSlashes(_)
MergeSlashes(t) ==
    IF t = <<>> THEN <<>>
    ELSE IF Len(t) >= 2 /\ t[1] = "/" /\ t[2] = "/"
         THEN <<"/">> \o MergeSlashes(SubSeq(t, 3, Len(t)))
         ELSE <<t[1]>> \o MergeSlashes(Tail(t))

\* path.split("/") without the leading empty piece: the segments of a text
\* that starts with "/".
RECURSIVE SplitPath(_)
SplitPath(t) ==
    IF Len(t) = 1 THEN <<"">>
    ELSE IF t[2] = "/" THEN <<"">> \o SplitPath(Tail(t))
    ELSE IF Len(t) = 2 THEN <<t[2]>>
    ELSE <<t[2]>> \o SplitPath(SubSeq(t, 3, Len(t)))

Merged(path) == SplitPath(MergeSlashes(PathText(path)))

\* Matching a request path against the map: the first matching rule; when
\* none matches, the path with its slashes merged is tried, and a match of
\* that is answered by a redirect to the merged path; else not found.
MatchRequest(map, path) ==
    LET i == FirstMatch(map, path) IN
    IF i # 0 THEN [kind |-> "rule", index |-> i]
    ELSE IF FirstMatch(map, Merged(path)) # 0
         THEN [kind |-> "redirect", index |-> 0]
         ELSE [kind |-> "notfound", index |-> 0]

(***************************************************************************)
(* The scripts                                                             *)
(***************************************************************************)
Create(line) == [op |-> "create", rule |-> <<>>, endpoint |-> "", line |-> line]
Route(line, parts, endpoint) ==
    [op |-> "route", rule |-> parts, endpoint |-> endpoint, line |-> line]
Run(line) == [op |-> "run", rule |-> <<>>, endpoint |-> "", line |-> line]

UserRule == <<Lit("user"), Var("string", "name")>>

AppPy ==
    << Create(7),
       Route(9, <<Lit("")>>, "index"),
       Route(15, <<Lit("home")>>, "home"),
       Route(20, <<Lit("about")>>, "about"),
       Route(28, UserRule, "user_profile"),
       Route(33, UserRule, "user_profile_template"),
       Run(39) >>

\* Variant of IntroductionPy: line 4 is not commented out.
IntroductionPyWithApp ==
    << Create(4),
       Route(7, <<Lit("")>>, "hello_world"),
       Route(12, <<Lit("home")>>, "home"),
       Route(17, <<Lit("about")>>, "about"),
       Route(25, UserRule, "user_profile"),
       Route(30, UserRule, "user_profile_template"),
       Run(36) >>

\* Line 4, the creation of the application object, is a comment.
IntroductionPy ==
    << Route(7, <<Lit("")>>, "hello_world"),
       Route(12, <<Lit("home")>>, "home"),
       Route(17, <<Lit("about")>>, "about"),
       Route(25, UserRule, "user_profile"),
       Route(30, UserRule, "user_profile_template"),
       Run(36) >>

Script(p) == IF p = "app" THEN AppPy ELSE IntroductionPy

(***************************************************************************)
(* View functions.  A view returns [raised, text]: the exception it raised *)
(* ("" if none) and the text it returned.                                  *)
(***************************************************************************)
Returned(text) == [raised |-> "", text |-> text]
Raised(exc) == [raised |-> exc, text |-> <<>>]

\* render_template(template, **context): the rendered text stands for the
\* template filled with the context; it fails when the template is missing
\* or broken.
render_template(template, context) ==
    IF templateOk THEN Returned(<<template>> \o context)
    ELSE Raised("TemplateError")

index == render_template("index.html", <<>>)

hello_world == Returned(<<"Hello, World!">>)

home == Returned(<<"Hello, Home!">>)

about == Returned(<<"This is the About page.">>)

\* Variant of user_profile: the name of the comment, not the one of the path.
user_profile_shota(name) == Returned(<<"Hello, ", "Shota", "!">>)

user_profile(name) == Returned(<<"Hello, ", name, "!">>)

user_profile_template(name) == render_template("index.html", <<name>>)

\* The view Flask binds to the static rule: the file, or NotFound.
send_static_file(filename) ==
    IF filename \in staticFiles THEN Returned(<<"static">> \o filename)
    ELSE Raised("NotFound")

ViewFunction(endpoint, args) ==
    CASE endpoint = "index" -> index
      [] endpoint = "hello_world" -> hello_world
      [] endpoint = "home" -> home
      [] endpoint = "about" -> about
      [] endpoint = "user_profile" -> user_profile(args["name"])
      [] endpoint = "user_profile_template" -> user_profile_template(args["name"])
      [] endpoint = "static" -> send_static_file(args["filename"])

NoResponse == [status |-> 0, body |-> <<>>]
NotFound == [status |-> 404, body |-> <<"Not Found">>]
Redirect(path) == [status |-> 308, body |-> PathText(path)]
ServerError == [status |-> 500, body |-> <<"Internal Server Error">>]

\* Variant of MakeResponse: every exception is answered as not found.
MakeResponseNotFound(result) ==
    IF result.raised = "" THEN [status |-> 200, body |-> result.text]
    ELSE NotFound

\* full_dispatch_request: the view's text is a 200 response, an HTTP
\* exception is its own response, any other exception is a 500.
MakeResponse(result) ==
    IF result.raised = "" THEN [status |-> 200, body |-> result.text]
    ELSE IF result.raised = "NotFound" THEN NotFound
    ELSE ServerError

(***************************************************************************)
(* State                                                                   *)
(***************************************************************************)
Idle == [pc |-> "idle", path |-> <<>>, endpoint |-> "", args |-> <<>>,
         response |-> NoResponse]

\* The files that may lie in the static folder.
StaticNames == {<<"John">>}

Init ==
    /\ program \in {"app", "introduction"}
    /\ pc = 1
    /\ phase = "starting"
    /\ appDefined = FALSE
    /\ url_map = <<>>
    /\ view_functions = {}
    /\ templateOk \in BOOLEAN
    /\ staticFiles \in SUBSET StaticNames
    /\ req = [c \in Clients |-> Idle]
    /\ hadFailure = FALSE

Stmt == Script(program)[pc]

(***************************************************************************)
(* Startup: the statements of the script                                   *)
(***************************************************************************)
\* app = Flask(__name__)
ExecCreate ==
    /\ phase = "starting"
    /\ Stmt.op = "create"
    /\ appDefined' = TRUE
    /\ url_map' = <<StaticRule>>
    /\ view_functions' = {StaticRule.endpoint}
    /\ pc' = pc + 1
    /\ UNCHANGED <<program, phase, templateOk, staticFiles, req, hadFailure>>

\* @app.route(rule) def endpoint(...): a NameError when `app` is unbound,
\* an AssertionError when the endpoint already has a view.
ExecRoute ==
    /\ phase = "starting"
    /\ Stmt.op = "route"
    /\ IF appDefined /\ Stmt.endpoint \notin view_functions
       THEN /\ url_map' = Append(url_map, Rule(Stmt.rule, Stmt.endpoint))
            /\ view_functions' = view_functions \cup {Stmt.endpoint}
            /\ pc' = pc + 1
            /\ UNCHANGED phase
       ELSE /\ phase' = "crashed"
            /\ UNCHANGED <<url_map, view_functions, pc>>
    /\ UNCHANGED <<program, appDefined, templateOk, staticFiles, req, hadFailure>>

\* app.run(debug=True)
ExecRun ==
    /\ phase = "starting"
    /\ Stmt.op = "run"
    /\ phase' = IF appDefined THEN "serving" ELSE "crashed"
    /\ UNCHANGED <<program, pc, appDefined, url_map, view_functions,
                   templateOk, staticFiles, req, hadFailure>>

(***************************************************************************)
(* Serving: one GET request per client thread at a time                    *)
(***************************************************************************)
IsFailure(response) == response.status \in {404, 500}

\* Variant of RouteRequest: the matched rule is moved to the front of the map.
RouteRequestMoveToFront(c, path) ==
    /\ phase = "serving"
    /\ req[c].pc = "idle"
    /\ LET m == MatchRequest(url_map, path) IN
       IF m.kind = "rule"
       THEN /\ req' = [req EXCEPT ![c] =
                         [pc |-> "handling", path |-> path,
                          endpoint |-> url_map[m.index].endpoint,
                          args |-> ViewArgs(url_map[m.index], path),
                          response |-> NoResponse]]
            /\ url_map' = <<url_map[m.index]>>
                            \o SubSeq(url_map, 1, m.index - 1)
                            \o SubSeq(url_map, m.index + 1, Len(url_map))
            /\ UNCHANGED hadFailure
       ELSE LET r == IF m.kind = "redirect" THEN Redirect(Merged(path))
                     ELSE NotFound IN
            /\ req' = [req EXCEPT ![c] =
                         [pc |-> "done", path |-> path, endpoint |-> "",
                          args |-> <<>>, response |-> r]]
            /\ hadFailure' = (hadFailure \/ IsFailure(r))
            /\ UNCHANGED url_map
    /\ UNCHANGED <<program, pc, phase, appDefined, view_functions,
                   templateOk, staticFiles>>

\* A request arrives and is matched against the URL map.
RouteRequest(c, path) ==
    /\ phase = "serving"
    /\ req[c].pc = "idle"
    /\ LET m == MatchRequest(url_map, path) IN
       IF m.kind = "rule"
       THEN /\ req' = [req EXCEPT ![c] =
                         [pc |-> "handling", path |-> path,
                          endpoint |-> url_map[m.index].endpoint,
                          args |-> ViewArgs(url_map[m.index], path),
                          response |-> NoResponse]]
            /\ UNCHANGED hadFailure
       ELSE LET r == IF m.kind = "redirect" THEN Redirect(Merged(path))
                     ELSE NotFound IN
            /\ req' = [req EXCEPT ![c] =
                         [pc |-> "done", path |-> path, endpoint |-> "",
                          args |-> <<>>, response |-> r]]
            /\ hadFailure' = (hadFailure \/ IsFailure(r))
    /\ UNCHANGED <<program, pc, phase, appDefined, url_map, view_functions,
                   templateOk, staticFiles>>

\* Variant of DispatchRequest: an exception of the view ends the process.
DispatchRequestFatal(c) ==
    /\ phase = "serving"
    /\ req[c].pc = "handling"
    /\ LET r == MakeResponse(ViewFunction(req[c].endpoint, req[c].args)) IN
       /\ req' = [req EXCEPT ![c].pc = "done", ![c].response = r]
       /\ hadFailure' = (hadFailure \/ IsFailure(r))
       /\ phase' = IF r.status = 500 THEN "crashed" ELSE phase
    /\ UNCHANGED <<program, pc, appDefined, url_map, view_functions,
                   templateOk, staticFiles>>

\* The view function of the matched endpoint runs with the bound value.
DispatchRequest(c) ==
    /\ phase = "serving"
    /\ req[c].pc = "handling"
    /\ LET r == MakeResponse(ViewFunction(req[c].endpoint, req[c].args)) IN
       /\ req' = [req EXCEPT ![c].pc = "done", ![c].response = r]
       /\ hadFailure' = (hadFailure \/ IsFailure(r))
    /\ UNCHANGED <<program, pc, phase, appDefined, url_map, view_functions,
                   templateOk, staticFiles>>

\* The response is sent and the thread is free again.
SendResponse(c) ==
    /\ phase = "serving"
    /\ req[c].pc = "done"
    /\ req' = [req EXCEPT ![c] = Idle]
    /\ UNCHANGED <<program, pc, phase, appDefined, url_map, view_functions,
                   templateOk, staticFiles, hadFailure>>

Next ==
    \/ ExecCreate
    \/ ExecRoute
    \/ ExecRun
    \/ \E c \in Clients, path \in Paths : RouteRequest(c, path)
    \/ \E c \in Clients : DispatchRequest(c)
    \/ \E c \in Clients : SendResponse(c)

Spec == Init /\ [][Next]_vars

(***************************************************************************)
(* Properties                                                              *)
(***************************************************************************)
Done(c) == req[c].pc = "done"

Active(c) == req[c].pc \in {"handling", "done"}

\* The URL map once app.py has run: Flask's static rule, then the (pattern,
\* handler) pairs of app.py in the order of their registration.
StartupMap ==
    LET R == SelectSeq(AppPy, LAMBDA st : st.op = "route") IN
    <<StaticRule>> \o [i \in 1..Len(R) |-> Rule(R[i].rule, R[i].endpoint)]

IsUserPath(path) == Len(path) = 2 /\ path[1] = "user" /\ path[2] # ""

\* The path is /, /home, /about or /user/<name>.
OnAppPattern(path) ==
    path \in {<<"">>, <<"home">>, <<"about">>} \/ IsUserPath(path)

\* The path is /static/<path:filename>.
OnStaticPattern(path) ==
    Len(path) >= 2 /\ path[1] = "static" /\ path[2] # ""

\* The path's text has two slashes in a row.
HasDoubleSlash(path) == \E i \in 1..(Len(path) - 1) : path[i] = ""

C2_LiteralRoutes ==
    \A c \in Clients :
        /\ (Done(c) /\ req[c].path = <<"home">>) =>
              req[c].response = [status |-> 200, body |-> <<"Hello, Home!">>]
        /\ (Done(c) /\ req[c].path = <<"about">>) =>
              req[c].response =
                  [status |-> 200, body |-> <<"This is the About page.">>]

C2_Witness ==
    /\ hadFailure
    /\ \E c, d \in Clients :
        /\ Done(c) /\ req[c].path = <<"about">> /\ req[c].response.status = 200
        /\ Done(d) /\ req[d].path = <<"home">> /\ req[d].response.status = 200

C4_FirstMatchWins ==
    \A c \in Clients :
        /\ req[c].endpoint # "user_profile_template"
        /\ (Active(c) /\ IsUserPath(req[c].path)) =>
              /\ req[c].endpoint = "user_profile"
              /\ req[c].args["name"] = req[c].path[2]
              /\ Done(c) =>
                    /\ req[c].response.status = 200
                    /\ req[c].response.body =
                           user_profile(req[c].path[2]).text

C4_Witness ==
    \E c \in Clients :
        /\ req[c].pc = "handling"
        /\ req[c].path = <<"user", "John">>
        /\ req[c].endpoint = "user_profile"
        /\ url_map[Len(url_map)].endpoint = "user_profile_template"
        /\ RuleMatches(url_map[Len(url_map)], req[c].path)

\* C5: while a handler of /user/<name> executes, name is a non-empty string
\* equal to the second segment of the request path; /user and /user/ never
\* reach a handler.
C5_PlaceholderBound ==
    \A c \in Clients :
        /\ ( /\ req[c].pc = "handling"
             /\ req[c].endpoint \in {"user_profile", "user_profile_template"} ) =>
                /\ Len(req[c].path) = 2
                /\ req[c].args["name"] # ""
                /\ req[c].args["name"] = req[c].path[2]
        /\ req[c].path \in {<<"user">>, <<"user", "">>} =>
                req[c].pc # "handling" /\ req[c].endpoint = ""

C5_Witness ==
    \E c, d \in Clients :
        /\ req[c].pc = "handling"
        /\ req[c].endpoint = "user_profile"
        /\ req[c].args["name"] = "John"
        /\ Done(d)
        /\ req[d].path = <<"user", "">>

\* C6: a GET to /greet/<name>, name non-empty, is answered with a rendered
\* text that holds the name and the three fixed items.
C6_GreetRendered ==
    \A c \in Clients :
        ( /\ Done(c)
          /\ Len(req[c].path) = 2
          /\ req[c].path[1] = "greet"
          /\ req[c].path[2] # "" ) =>
            /\ req[c].response.status = 200
            /\ Len(req[c].response.body) >= 4
            /\ \E i \in 1..Len(req[c].response.body) :
                   req[c].response.body[i] = req[c].path[2]

ExpectedResponse(path) ==
    LET m == MatchRequest(StartupMap, path) IN
    IF m.kind = "rule"
    THEN MakeResponse(ViewFunction(StartupMap[m.index].endpoint,
                                   ViewArgs(StartupMap[m.index], path)))
    ELSE IF m.kind = "redirect" THEN Redirect(Merged(path)) ELSE NotFound

\* C8: after a request has ended in a 404 or a 500 the process still serves,
\* and every response is the one its path gets when nothing failed before.
C8_FailureScoped ==
    hadFailure =>
        /\ phase = "serving"
        /\ \A c \in Clients :
              Done(c) => req[c].response = ExpectedResponse(req[c].path)

C8_Witness ==
    /\ hadFailure
    /\ req["t1"] = Idle
    /\ req["t2"].pc = "done"
    /\ req["t2"].path = <<"user", "John">>
    /\ req["t2"].response.status = 200
    /\ ~templateOk

\* C9: when rendering index.html fails, the request to / ends in a 500.
C9_RenderFailure ==
    \A c \in Clients :
        (Done(c) /\ req[c].endpoint = "index" /\ ~templateOk) =>
            req[c].response.status = 500

C9_Witness ==
    \E c \in Clients :
        /\ Done(c)
        /\ req[c].path = <<"">>
        /\ req[c].endpoint = "index"
        /\ ~templateOk
        /\ req[c].response = ServerError

\* C10: introduction.py never serves: its first route registration fails,
\* no route is registered and app.run is not reached.
C10_IntroductionNeverServes ==
    program = "introduction" =>
        /\ phase # "serving"
        /\ ~appDefined
        /\ url_map = <<>>
        /\ view_functions = {}
        /\ Stmt.op # "run"
        /\ \A c \in Clients : req[c] = Idle

C10_Witness ==
    /\ program = "introduction"
    /\ phase = "crashed"
    /\ Stmt.line = 7

====
